---- MODULE Spec2Model ----
(***************************************************************************)
(* Model of the Ambari -> Consul service registration daemon (src/main.go, *)
(* the variant of lines 384-960: root components, maintenance state,       *)
(* ownership tag, concurrent registry read, deregistration).               *)
(*                                                                         *)
(* Strings are sequences of one-character strings, so that ToLower,        *)
(* Replace, Index and slicing are computed as the Go library computes      *)
(* them.                                                                   *)
(***************************************************************************)
EXTENDS Integers, Sequences, FiniteSets, TLC

VARIABLES
    pc,              \* position of main (or of the diff harness)
    components,      \* main: var components []HostComponent
    consulServices,  \* main: consulServices, the registry snapshot
    newComponents,   \* result of getNewComponents
    removedServices, \* result of getRemovedServices
    registry,        \* the Consul catalog: entries keyed by (Address, ServiceID)
    clusterName,     \* main: var clusterName string, kept between passes
    hosts,           \* main: hosts, the host inventory of the pass
    ambari,          \* what the cluster manager reports
    sleepEnv,        \* the value of SERVICE_CHECK_POLL_INTERVAL in the environment
    regTasks,        \* registerToConsul: goroutines that have not finished
    deregTasks,      \* deregisterFromConsul: goroutines that have not finished, and
                     \* whether the current pass started them
    faults,          \* failures the environment may still produce
    pass,            \* history: what the current pass has read and issued
    catalogNames,    \* getConsulServices: the keys of var services, the catalog
    fetchTask,       \* getConsulServices: the goroutine of each service name
    wg,              \* getConsulServices: the counter of var wg sync.WaitGroup
    serviceChannel,  \* getConsulServices: chan ConsulService, unbuffered
    errorChannel,    \* getConsulServices: chan error, buffered
    closer,          \* getConsulServices: position of the goroutine that closes
    received,        \* getConsulServices: var registered []ConsulService
    result           \* getConsulServices: what it has returned

\* the variables of one call of getConsulServices seen step by step
fetchVars == <<catalogNames, fetchTask, wg, serviceChannel, errorChannel, closer,
               received, result>>

vars == <<pc, components, consulServices, newComponents, removedServices, registry,
          clusterName, hosts, ambari, sleepEnv, regTasks, deregTasks, faults, pass,
          catalogNames, fetchTask, wg, serviceChannel, errorChannel, closer, received, result>>

\* no call of getConsulServices is looked at step by step
FetchIdle ==
    /\ catalogNames = {}
    /\ fetchTask = <<>>
    /\ wg = 0
    /\ serviceChannel = [closes |-> 0]
    /\ errorChannel = [cap |-> 0, buf |-> <<>>, closes |-> 0]
    /\ closer = "unborn"
    /\ received = <<>>
    /\ result = [err |-> FALSE, services |-> <<>>]

\* the variables of main that the diff harness leaves alone
mainOnly == <<clusterName, hosts, ambari, sleepEnv, regTasks, deregTasks, faults>>

-----------------------------------------------------------------------------
(* Go's strings package, on sequences of characters *)

UpperCase == <<"A","B","C","D","E","F","G","H","I","J","K","L","M",
               "N","O","P","Q","R","S","T","U","V","W","X","Y","Z">>
LowerCase == <<"a","b","c","d","e","f","g","h","i","j","k","l","m",
               "n","o","p","q","r","s","t","u","v","w","x","y","z">>

\* unicode.ToLower on the ASCII letters
ToLowerTable ==
    [c \in {UpperCase[i] : i \in 1..Len(UpperCase)} |->
        LowerCase[CHOOSE i \in 1..Len(UpperCase) : UpperCase[i] = c]]

ToLowerChar(c) == IF c \in DOMAIN ToLowerTable THEN ToLowerTable[c] ELSE c

\* strings.ToLower
ToLower(s) == [i \in 1..Len(s) |-> ToLowerChar(s[i])]

\* strings.Replace(s, old, new, n) for one-character old and new: the first n
\* occurrences are replaced, all of them when n < 0
Replace(s, old, new, n) ==
    [i \in 1..Len(s) |->
        IF s[i] = old /\ (n < 0 \/ Cardinality({j \in 1..(i-1) : s[j] = old}) < n)
        THEN new ELSE s[i]]

\* strings.Index(s, ch) for a one-character ch: 0-based, -1 when absent
Index(s, ch) ==
    IF \E i \in 1..Len(s) : s[i] = ch
    THEN (CHOOSE i \in 1..Len(s) : s[i] = ch /\ \A j \in 1..(i-1) : s[j] # ch) - 1
    ELSE -1

\* s[lo:hi] panics ("slice bounds out of range") unless 0 <= lo <= hi <= len(s)
SliceInRange(s, lo, hi) == 0 <= lo /\ lo <= hi /\ hi <= Len(s)
Slice(s, lo, hi) == SubSeq(s, lo + 1, hi)

-----------------------------------------------------------------------------
(* Program constants *)

AMBARI_CONSUL_SERVICE_TAG == <<"a","m","b","a","r","i">>
UNKNOWN_STATE == <<"u","n","k","n","o","w","n">>
MAINTENANCE_STATE == <<"m","a","i","n","t","e","n","a","n","c","e">>

-----------------------------------------------------------------------------
(* The diff engine *)

\* mutant: only the first underscore is replaced
getDnsReadyComponentName_FirstOnly(componentName) ==
    Replace(ToLower(componentName), "_", "-", 1)

getDnsReadyComponentName(componentName) ==
    Replace(ToLower(componentName), "_", "-", -1)

\* mutant: only the first tag is looked at
isAmbariService_FirstTag(service) ==
    Len(service.ServiceTags) > 0 /\ service.ServiceTags[1] = AMBARI_CONSUL_SERVICE_TAG

isAmbariService(service) ==
    \E i \in 1..Len(service.ServiceTags) :
        service.ServiceTags[i] = AMBARI_CONSUL_SERVICE_TAG

\* the inner loop of getNewComponents: registered := true on the first match
\* mutant: an entry of any address matches
alreadyRegistered_AnyAddress(component, services) ==
    LET state == ToLower(component.State)
        componentName == getDnsReadyComponentName(component.HostComponent)
    IN \E i \in 1..Len(services) :
          /\ services[i].ServiceName = componentName
          /\ Len(services[i].ServiceTags) > 0
          /\ services[i].ServiceTags[1] = state

alreadyRegistered(component, services) ==
    LET state == ToLower(component.State)
        componentName == getDnsReadyComponentName(component.HostComponent)
    IN \E i \in 1..Len(services) :
          /\ services[i].ServiceName = componentName
          /\ services[i].Address = component.IP
          /\ Len(services[i].ServiceTags) > 0
          /\ services[i].ServiceTags[1] = state

RECURSIVE newComponentsLoop(_, _, _, _)
newComponentsLoop(comps, services, i, acc) ==
    IF i > Len(comps) THEN acc
    ELSE LET component == comps[i]
             state == ToLower(component.State)
         IN IF UNKNOWN_STATE # state
            THEN IF ~alreadyRegistered(component, services)
                 THEN newComponentsLoop(comps, services, i + 1, Append(acc, component))
                 ELSE newComponentsLoop(comps, services, i + 1, acc)
            ELSE newComponentsLoop(comps, services, i + 1, acc)

\* mutant: the state tag is not compared
RECURSIVE newComponentsLoop_NoTag(_, _, _, _)
newComponentsLoop_NoTag(comps, services, i, acc) ==
    IF i > Len(comps) THEN acc
    ELSE LET component == comps[i]
             registered ==
                 \E k \in 1..Len(services) :
                    /\ services[k].ServiceName = getDnsReadyComponentName(component.HostComponent)
                    /\ services[k].Address = component.IP
         IN IF UNKNOWN_STATE # ToLower(component.State) /\ ~registered
            THEN newComponentsLoop_NoTag(comps, services, i + 1, Append(acc, component))
            ELSE newComponentsLoop_NoTag(comps, services, i + 1, acc)

\* mutant: the state is compared with "unknown" without lowercasing it
RECURSIVE newComponentsLoop_RawState(_, _, _, _)
newComponentsLoop_RawState(comps, services, i, acc) ==
    IF i > Len(comps) THEN acc
    ELSE LET component == comps[i]
         IN IF UNKNOWN_STATE # component.State /\ ~alreadyRegistered(component, services)
            THEN newComponentsLoop_RawState(comps, services, i + 1, Append(acc, component))
            ELSE newComponentsLoop_RawState(comps, services, i + 1, acc)

getNewComponents_NoTag(comps, services) == newComponentsLoop_NoTag(comps, services, 1, <<>>)

getNewComponents_RawState(comps, services) == newComponentsLoop_RawState(comps, services, 1, <<>>)

getNewComponents(comps, services) == newComponentsLoop(comps, services, 1, <<>>)

\* the inner loop of getRemovedServices: active := true on the first match
isActive(service, comps) ==
    \E i \in 1..Len(comps) :
        /\ service.ServiceName = getDnsReadyComponentName(comps[i].HostComponent)
        /\ service.Address = comps[i].IP

RECURSIVE removedServicesLoop(_, _, _, _)
removedServicesLoop(comps, services, i, acc) ==
    IF i > Len(services) THEN acc
    ELSE IF isAmbariService(services[i]) /\ ~isActive(services[i], comps)
         THEN removedServicesLoop(comps, services, i + 1, Append(acc, services[i]))
         ELSE removedServicesLoop(comps, services, i + 1, acc)

\* mutant: an entry is active only if a component is in the state of its first tag
RECURSIVE removedServicesLoop_StateMatched(_, _, _, _)
removedServicesLoop_StateMatched(comps, services, i, acc) ==
    IF i > Len(services) THEN acc
    ELSE IF isAmbariService(services[i]) /\
            ~\E k \in 1..Len(comps) :
                /\ isActive(services[i], <<comps[k]>>)
                /\ Len(services[i].ServiceTags) > 0
                /\ services[i].ServiceTags[1] = ToLower(comps[k].State)
         THEN removedServicesLoop_StateMatched(comps, services, i + 1, Append(acc, services[i]))
         ELSE removedServicesLoop_StateMatched(comps, services, i + 1, acc)

getRemovedServices_StateMatched(comps, services) ==
    removedServicesLoop_StateMatched(comps, services, 1, <<>>)

getRemovedServices(comps, services) == removedServicesLoop(comps, services, 1, <<>>)

-----------------------------------------------------------------------------
(* The registry (Consul agents), as the calls of the program act on it.     *)
(* An entry is what /v1/catalog/service/<name> returns for it; the agent    *)
(* at Address keeps one entry per ServiceID, and Address is never empty.    *)

\* the address of the agent on the host of the program
LocalAddress == <<"1">>

\* the agent that "http://" + address + ":8500" reaches: with an empty
\* address the URL is "http://:8500" and the connection goes to the local host
AgentAddress(address) == IF address = <<>> THEN LocalAddress ELSE address

SameKey(e, address, id) == e.Address = AgentAddress(address) /\ e.ServiceID = id

\* mutant: a registration under an existing ID is added next to that entry
agentRegister_Append(reg, service) ==
    reg \cup
    {[ServiceID |-> service.ID, ServiceName |-> service.Name,
      Address |-> AgentAddress(service.Address), ServiceTags |-> service.Tags]}

\* PUT http://<address>:8500/v1/agent/service/register: registering under an
\* existing ID replaces that entry; the catalog lists the entry with the
\* address of the agent's node
agentRegister(reg, service) ==
    {e \in reg : ~SameKey(e, service.Address, service.ID)} \cup
    {[ServiceID |-> service.ID, ServiceName |-> service.Name,
      Address |-> AgentAddress(service.Address), ServiceTags |-> service.Tags]}

\* mutant: the agent drops every service it holds
agentDeregister_WholeAgent(reg, service) ==
    {e \in reg : e.Address # service.Address}

\* GET http://<address>:8500/v1/agent/service/deregister/<ServiceID>
agentDeregister(reg, service) ==
    {e \in reg : ~SameKey(e, service.Address, service.ServiceID)}

-----------------------------------------------------------------------------
(* The registry mutator *)

\* registerToConsul, the goroutine of one component: the slice expression
\* component.Hostname[0:strings.Index(component.Hostname, ".")] panics when
\* the host name holds no "."
registrationPanics(component) ==
    ~SliceInRange(component.Hostname, 0, Index(component.Hostname, "."))

registrationId(component) ==
    LET componentName == getDnsReadyComponentName(component.HostComponent)
        shortHostname == Slice(component.Hostname, 0, Index(component.Hostname, "."))
    IN componentName \o <<".">> \o Replace(shortHostname, "_", "-", 1)

\* mutant: the state tag is not lowercased
registrationService_RawState(component) ==
    [ID |-> registrationId(component),
     Name |-> getDnsReadyComponentName(component.HostComponent),
     Address |-> component.IP,
     Port |-> 1080,
     Tags |-> <<component.State, AMBARI_CONSUL_SERVICE_TAG>>]

registrationService(component) ==
    [ID |-> registrationId(component),
     Name |-> getDnsReadyComponentName(component.HostComponent),
     Address |-> component.IP,
     Port |-> 1080,
     Tags |-> <<ToLower(component.State), AMBARI_CONSUL_SERVICE_TAG>>]

\* every enumeration of a finite set
RECURSIVE Enumerations(_)
Enumerations(S) ==
    IF S = {} THEN {<<>>}
    ELSE UNION {{<<x>> \o rest : rest \in Enumerations(S \ {x})} : x \in S}

\* the orders in which the n tasks of one fan-out can reach the registry
Orders(n) == Enumerations(1..n)

RECURSIVE registerAll(_, _, _, _)
registerAll(reg, comps, order, k) ==
    IF k > Len(comps) THEN reg
    ELSE registerAll(agentRegister(reg, registrationService(comps[order[k]])), comps, order, k + 1)

RECURSIVE deregisterAll(_, _, _)
deregisterAll(reg, services, k) ==
    IF k > Len(services) THEN reg
    ELSE deregisterAll(agentDeregister(reg, services[k]), services, k + 1)

-----------------------------------------------------------------------------
(* Bounds and input universes *)

\* length of a discovered component list
MaxComponents == 2
\* number of entries of a registry snapshot
MaxServices == 2

\* host names: one with underscores and a domain, one without a ".", and one
\* the host inventory does not know
HostUnderscore == <<"h","_","_",".","x">>
HostNoDot == <<"g">>
HostNotInInventory == <<"k",".","y">>
HostNames == {HostUnderscore, HostNoDot, HostNotInInventory}

\* the host inventory (host_name -> ip) of the /hosts response
Inventory == (HostUnderscore :> <<"1">>) @@ (HostNoDot :> <<"2">>)

\* hosts[name] of a Go map: the zero value "" for an absent key
Lookup(m, name) == IF name \in DOMAIN m THEN m[name] ELSE <<>>

ComponentNN == <<"N","_","N">>
ComponentD == <<"D">>
STARTED == <<"S","T","A","R","T","E","D">>
INSTALLED == <<"I","N","S","T","A","L","L","E","D">>
States == {STARTED, INSTALLED, <<"U","n","k","n","o","w","n">>}

HostComponent(name, hostname, state) ==
    [HostComponent |-> name, Hostname |-> hostname,
     IP |-> Lookup(Inventory, hostname), State |-> state]

\* one component on every host in every state, a second one on one host
HostComponents ==
    {HostComponent(ComponentNN, h, s) : h \in HostNames, s \in States} \cup
    {HostComponent(ComponentD, HostUnderscore, STARTED)}

ServiceIDs == {<<"n","-","n",".","h","-","_">>, <<"z">>}
ServiceNames == {<<"n","-","n">>, <<"d">>}
Addresses == {<<"1">>}
TagLists == {<<<<"s","t","a","r","t","e","d">>, AMBARI_CONSUL_SERVICE_TAG>>,
             <<<<"i","n","s","t","a","l","l","e","d">>>>,
             <<AMBARI_CONSUL_SERVICE_TAG>>}

ConsulServices ==
    {[ServiceID |-> i, ServiceName |-> n, Address |-> a, ServiceTags |-> t] :
        i \in ServiceIDs, n \in ServiceNames, a \in Addresses, t \in TagLists}

SeqsUpTo(S, n) == UNION {[1..k -> S] : k \in 0..n}

\* the range of a sequence
Range(f) == {f[i] : i \in DOMAIN f}

\* the registries of at most n entries, one entry per (Address, ServiceID)
Registries(n) ==
    {Range(f) : f \in {g \in SeqsUpTo(ConsulServices, n) :
                          \A i, j \in DOMAIN g :
                              SameKey(g[i], g[j].Address, g[j].ServiceID) => i = j}}

-----------------------------------------------------------------------------
(* The diff engine on its own: both diffs of a snapshot, the diffs applied   *)
(* to the registry, and both diffs again on a snapshot of the new registry   *)
(* (consulServices keeps the first snapshot, pass what was applied)          *)

\* history of a pass: which reads failed, the registry as it was when it was
\* read, how many cluster-list queries were issued, how long wait() slept
\* before it (in seconds), whether the diffs were
\* computed, what was handed to registerToConsul
\* and to deregisterFromConsul, and how many calls were attempted for each
\* element of the two lists
NoPass ==
    [rootErr |-> FALSE, hostErr |-> FALSE, consulErr |-> FALSE, failing |-> {},
     snapshot |-> {}, clusterQueries |-> 0, sleep |-> <<>>,
     diffed |-> FALSE, register |-> <<>>, deregister |-> <<>>,
     regCalls |-> <<>>, deregCalls |-> <<>>]

DiffInit ==
    /\ pc = "input"
    /\ components \in SeqsUpTo(HostComponents, MaxComponents)
    /\ registry \in Registries(MaxServices)
    /\ consulServices \in Enumerations(registry)
    /\ newComponents = <<>>
    /\ removedServices = <<>>
    /\ pass = [NoPass EXCEPT !.snapshot = registry]
    /\ clusterName = <<>>
    /\ hosts = Inventory
    /\ ambari = <<>>
    /\ sleepEnv = <<>>
    /\ regTasks = {}
    /\ deregTasks = {}
    /\ faults = 0
    /\ FetchIdle

Diff ==
    /\ pc = "input"
    /\ newComponents' = getNewComponents(components, consulServices)
    /\ removedServices' = getRemovedServices(components, consulServices)
    /\ pc' = "diffed"
    /\ UNCHANGED <<components, consulServices, registry, pass, mainOnly>>
    /\ UNCHANGED fetchVars

\* registerToConsul, then deregisterFromConsul, every call succeeding; the
\* registrations reach the registry in any order
Apply ==
    /\ pc = "diffed"
    /\ \A i \in 1..Len(newComponents) : ~registrationPanics(newComponents[i])
    /\ \E order \in Orders(Len(newComponents)) :
          registry' = deregisterAll(registerAll(registry, newComponents, order, 1),
                                    removedServices, 1)
    /\ pass' = [pass EXCEPT !.register = newComponents, !.deregister = removedServices]
    /\ pc' = "applied"
    /\ UNCHANGED <<components, consulServices, newComponents, removedServices, mainOnly>>
    /\ UNCHANGED fetchVars

\* a registration task panics: the process is gone
ApplyPanics ==
    /\ pc = "diffed"
    /\ \E i \in 1..Len(newComponents) : registrationPanics(newComponents[i])
    /\ pc' = "crashed"
    /\ UNCHANGED <<components, consulServices, newComponents, removedServices, registry,
                   pass, mainOnly>>
    /\ UNCHANGED fetchVars

Rediff ==
    /\ pc = "applied"
    /\ \E snapshot \in Enumerations(registry) :
          /\ newComponents' = getNewComponents(components, snapshot)
          /\ removedServices' = getRemovedServices(components, snapshot)
    /\ pc' = "rediffed"
    /\ UNCHANGED <<components, consulServices, registry, pass, mainOnly>>
    /\ UNCHANGED fetchVars

DiffNext == Diff \/ Apply \/ ApplyPanics \/ Rediff

DiffSpec == DiffInit /\ [][DiffNext]_vars

-----------------------------------------------------------------------------
(* The diff engine on one component of any type: the component is diffed    *)
(* against an empty registry, registered, and diffed again                  *)

\* length of a component type
MaxNameLen == 3

\* component types: upper and lower case letters, underscores, hyphens, dots
TypeAlphabet == {"A", "a", "_", "-", "."}

ComponentTypes == SeqsUpTo(TypeAlphabet, MaxNameLen)

NameInit ==
    /\ pc = "input"
    /\ \E name \in ComponentTypes : \E hostname \in {HostUnderscore, HostNoDot} :
          components = <<HostComponent(name, hostname, STARTED)>>
    /\ registry = {}
    /\ consulServices = <<>>
    /\ newComponents = <<>>
    /\ removedServices = <<>>
    /\ pass = NoPass
    /\ clusterName = <<>>
    /\ hosts = Inventory
    /\ ambari = <<>>
    /\ sleepEnv = <<>>
    /\ regTasks = {}
    /\ deregTasks = {}
    /\ faults = 0
    /\ FetchIdle

NameSpec == NameInit /\ [][DiffNext]_vars

-----------------------------------------------------------------------------
(* The cluster manager's responses and the topology snapshot builder *)

\* cluster-scoped host components the manager reports
MaxHostRoles == 1
\* entries of the registry when the loop starts
MaxInitial == 1
\* failing calls in one behaviour
MaxFaults == 1

\* getClusterName: the first cluster of the response, if it has a name
getClusterName(fails, clusters) ==
    IF fails THEN [err |-> TRUE, name |-> <<>>]
    ELSE IF Len(clusters) > 0 /\ Len(clusters[1]) > 0
         THEN [err |-> FALSE, name |-> clusters[1]]
         ELSE [err |-> TRUE, name |-> <<>>]

\* getHosts: the map host_name -> ip
getHosts(fails, inventory) ==
    IF fails THEN [err |-> TRUE, hosts |-> <<>>]
    ELSE [err |-> FALSE, hosts |-> inventory]

\* getRootHostComponents: one HostComponent per RootServiceHostComponents of
\* the response, in the order of the response
getRootHostComponents(fails, items, hostMap) ==
    IF fails THEN [err |-> TRUE, components |-> <<>>]
    ELSE [err |-> FALSE,
          components |->
              [i \in 1..Len(items) |->
                  [HostComponent |-> items[i].Name,
                   Hostname |-> items[i].Hostname,
                   IP |-> Lookup(hostMap, items[i].Hostname),
                   State |-> items[i].State]]]

\* getHostComponents: one HostComponent per HostRoles of the response; the
\* state is "maintenance" when the maintenance state is ON or
\* IMPLIED_FROM_SERVICE
IMPLIED_FROM_SERVICE ==
    <<"I","M","P","L","I","E","D","_","F","R","O","M","_","S","E","R","V","I","C","E">>

\* mutant: only the maintenance state ON counts
hostRoleState_OnOnly(role) ==
    IF <<"O","N">> = role.Maintenance THEN MAINTENANCE_STATE ELSE role.State

hostRoleState(role) ==
    IF <<"O","N">> = role.Maintenance \/ IMPLIED_FROM_SERVICE = role.Maintenance
    THEN MAINTENANCE_STATE
    ELSE role.State

getHostComponents(fails, roles, hostMap) ==
    IF fails THEN [err |-> TRUE, components |-> <<>>]
    ELSE [err |-> FALSE,
          components |->
              [i \in 1..Len(roles) |->
                  [HostComponent |-> roles[i].ComponentName,
                   Hostname |-> roles[i].Hostname,
                   IP |-> Lookup(hostMap, roles[i].Hostname),
                   State |-> hostRoleState(roles[i])]]]

\* mutant: a failed per-service fetch is skipped and the rest is returned
getConsulServices_SkipFailed(catalogFails, failing, reg, order) ==
    IF catalogFails THEN [err |-> TRUE, services |-> <<>>]
    ELSE [err |-> FALSE,
          services |-> SelectSeq(order, LAMBDA e : e \in reg /\ e.ServiceName \notin failing)]

\* getConsulServices: the catalog of service names, then one fetch per name;
\* the entries arrive in some order; any failed fetch fails the whole read
getConsulServices(catalogFails, failing, reg, order) ==
    IF catalogFails THEN [err |-> TRUE, services |-> <<>>]
    ELSE IF failing # {} THEN [err |-> TRUE, services |-> <<>>]
         ELSE [err |-> FALSE, services |-> SelectSeq(order, LAMBDA e : e \in reg)]

-----------------------------------------------------------------------------
(* wait(): the sleep between two passes. Durations are whole seconds; of     *)
(* time.ParseDuration the model has the integer groups <digits><unit> with   *)
(* the units s, m and h.                                                     *)

DEFAULT_SERVICE_CHECK_POLL_INTERVAL == 10

DigitValue ==
    [c \in {"0","1","2","3","4","5","6","7","8","9"} |->
        CASE c = "0" -> 0 [] c = "1" -> 1 [] c = "2" -> 2 [] c = "3" -> 3 [] c = "4" -> 4
          [] c = "5" -> 5 [] c = "6" -> 6 [] c = "7" -> 7 [] c = "8" -> 8 [] c = "9" -> 9]

IsDigit(c) == c \in DOMAIN DigitValue

unitMap == (<<"s">> :> 1) @@ (<<"m">> :> 60) @@ (<<"h">> :> 3600)

\* the first position from i on that holds a digit (a unit ends there), or
\* Len(s) + 1
RECURSIVE unitEnd(_, _)
unitEnd(s, i) == IF i > Len(s) \/ IsDigit(s[i]) THEN i ELSE unitEnd(s, i + 1)

\* leadingInt: the value of the digits from i on, and the position after them
RECURSIVE leadingInt(_, _, _)
leadingInt(s, i, v) ==
    IF i > Len(s) \/ ~IsDigit(s[i]) THEN [v |-> v, next |-> i]
    ELSE leadingInt(s, i + 1, v * 10 + DigitValue[s[i]])

\* the loop of time.ParseDuration over the groups <digits><unit>
RECURSIVE parseGroups(_, _, _)
parseGroups(s, i, d) ==
    IF i > Len(s) THEN [d |-> d, err |-> FALSE]
    ELSE LET n == leadingInt(s, i, 0)
             u == unitEnd(s, n.next)
             unit == SubSeq(s, n.next, u - 1)
         IN IF n.next = i THEN [d |-> 0, err |-> TRUE]
            ELSE IF unit \notin DOMAIN unitMap THEN [d |-> 0, err |-> TRUE]
            ELSE parseGroups(s, u, d + n.v * unitMap[unit])

\* time.ParseDuration: (0, error) for a string that is no duration
ParseDuration(s) ==
    IF s = <<"0">> THEN [d |-> 0, err |-> FALSE]
    ELSE IF s = <<>> THEN [d |-> 0, err |-> TRUE]
    ELSE parseGroups(s, 1, 0)

\* wait: s, _ := time.ParseDuration(sleepEnv); sleep = s
wait(env) ==
    IF Len(env) > 0 THEN ParseDuration(env).d
    ELSE DEFAULT_SERVICE_CHECK_POLL_INTERVAL

-----------------------------------------------------------------------------
(* The reconciliation loop (main) *)

\* the values of SERVICE_CHECK_POLL_INTERVAL: unset, a duration, and two
\* strings that are no duration (an unknown unit, a number without a unit)
PollIntervals ==
    {<<>>, <<"1","m","5","s">>, <<"x">>, <<"5">>}

\* the root host components the manager reports: none, or one
RootLists ==
    {<<>>, <<[Name |-> ComponentD, State |-> STARTED, Hostname |-> HostUnderscore]>>}

UNKNOWN == <<"U","N","K","N","O","W","N">>

HostRoles ==
    {[ComponentName |-> ComponentNN, Hostname |-> HostUnderscore,
      State |-> STARTED, Maintenance |-> <<"O","F","F">>],
     [ComponentName |-> ComponentNN, Hostname |-> HostUnderscore,
      State |-> UNKNOWN, Maintenance |-> <<"O","F","F">>],
     [ComponentName |-> ComponentNN, Hostname |-> HostUnderscore,
      State |-> UNKNOWN, Maintenance |-> <<"O","N">>],
     [ComponentName |-> ComponentNN, Hostname |-> HostNoDot,
      State |-> STARTED, Maintenance |-> <<"O","F","F">>],
     [ComponentName |-> ComponentD, Hostname |-> HostUnderscore,
      State |-> INSTALLED, Maintenance |-> IMPLIED_FROM_SERVICE]}

ClusterLists == {<<>>, <<<<"c">>>>}

Topologies ==
    {[root |-> r, clusters |-> c, roles |-> h] :
        r \in RootLists,
        c \in ClusterLists,
        h \in SeqsUpTo(HostRoles, MaxHostRoles)}

\* the entries the registry may hold when the loop starts: one the program
\* registered, one of another actor under the same id, and an owned and a
\* foreign entry of a service that may not be running
InitialEntries ==
    {e \in ConsulServices :
        \/ /\ e.ServiceID = <<"n","-","n",".","h","-","_">>
           /\ e.ServiceName = <<"n","-","n">>
           /\ Len(e.ServiceTags) # 1 \/ e.ServiceTags[1] # AMBARI_CONSUL_SERVICE_TAG
        \/ /\ e.ServiceID = <<"z">>
           /\ e.ServiceName = <<"d">>
           /\ Len(e.ServiceTags) = 1}

InitialRegistries ==
    {r \in Registries(MaxInitial) : r \subseteq InitialEntries}

Init ==
    /\ pc = "wait"
    /\ ambari \in Topologies
    /\ sleepEnv \in PollIntervals
    /\ registry \in InitialRegistries
    /\ faults = MaxFaults
    /\ clusterName = <<>>
    /\ hosts = <<>>
    /\ components = <<>>
    /\ consulServices = <<>>
    /\ newComponents = <<>>
    /\ removedServices = <<>>
    /\ regTasks = {}
    /\ deregTasks = {}
    /\ pass = NoPass
    /\ FetchIdle

\* a call fails only while the environment has failures left
Outcomes == IF faults > 0 THEN {TRUE, FALSE} ELSE {FALSE}
AfterCall(fails) == IF fails THEN faults - 1 ELSE faults

\* wait(): the sleep between two passes; the variables declared in the body
\* of the loop (hosts, components, consulServices, newComponents,
\* removedServices) are those of the new iteration
Wait ==
    /\ pc = "wait"
    /\ pc' = "getHosts"
    /\ pass' = [NoPass EXCEPT !.sleep = <<wait(sleepEnv)>>]
    /\ hosts' = <<>>
    /\ components' = <<>>
    /\ consulServices' = <<>>
    /\ newComponents' = <<>>
    /\ removedServices' = <<>>
    /\ deregTasks' = {[task EXCEPT !.own = FALSE] : task \in deregTasks}
    /\ UNCHANGED <<registry, clusterName, ambari, sleepEnv, regTasks, faults>>
    /\ UNCHANGED fetchVars

GetHosts ==
    /\ pc = "getHosts"
    /\ \E fails \in Outcomes :
          LET r == getHosts(fails, Inventory)
          IN /\ faults' = AfterCall(fails)
             /\ components' = <<>>
             /\ hosts' = r.hosts
             /\ pc' = IF r.err THEN "wait" ELSE "getRootHostComponents"
    /\ UNCHANGED <<consulServices, newComponents, removedServices, registry,
                   clusterName, ambari, sleepEnv, regTasks, deregTasks, pass>>
    /\ UNCHANGED fetchVars

GetRootHostComponents ==
    /\ pc = "getRootHostComponents"
    /\ \E fails \in Outcomes :
          LET r == getRootHostComponents(fails, ambari.root, hosts)
          IN /\ faults' = AfterCall(fails)
             /\ components' = IF r.err THEN components ELSE components \o r.components
             /\ pass' = [pass EXCEPT !.rootErr = r.err]
             /\ pc' = IF r.err THEN "wait" ELSE "getClusterName"
    /\ UNCHANGED <<consulServices, newComponents, removedServices, registry,
                   clusterName, hosts, ambari, sleepEnv, regTasks, deregTasks>>
    /\ UNCHANGED fetchVars

\* mutant: the cluster list is queried in every pass
needsClusterName_Always(name) == TRUE

\* if len(clusterName) == 0
needsClusterName(name) == Len(name) = 0

\* if len(clusterName) == 0 { clusterName, err = getClusterName(...) }
GetClusterName ==
    /\ pc = "getClusterName"
    /\ needsClusterName(clusterName)
    /\ \E fails \in Outcomes :
          LET r == getClusterName(fails, ambari.clusters)
          IN /\ faults' = AfterCall(fails)
             /\ clusterName' = r.name
             /\ pass' = [pass EXCEPT !.clusterQueries = @ + 1]
             /\ pc' = IF r.err THEN "getConsulServices" ELSE "getHostComponents"
    /\ UNCHANGED <<components, consulServices, newComponents, removedServices, registry,
                   hosts, ambari, sleepEnv, regTasks, deregTasks>>
    /\ UNCHANGED fetchVars

ClusterNameCached ==
    /\ pc = "getClusterName"
    /\ ~needsClusterName(clusterName)
    /\ pc' = "getHostComponents"
    /\ UNCHANGED <<components, consulServices, newComponents, removedServices, registry,
                   clusterName, hosts, ambari, sleepEnv, regTasks, deregTasks, faults, pass>>
    /\ UNCHANGED fetchVars

\* an error of getHostComponents is logged and the pass goes on
GetHostComponents ==
    /\ pc = "getHostComponents"
    /\ \E fails \in Outcomes :
          LET r == getHostComponents(fails, ambari.roles, hosts)
          IN /\ faults' = AfterCall(fails)
             /\ components' = IF r.err THEN components ELSE components \o r.components
             /\ pass' = [pass EXCEPT !.hostErr = r.err]
             /\ pc' = "getConsulServices"
    /\ UNCHANGED <<consulServices, newComponents, removedServices, registry,
                   clusterName, hosts, ambari, sleepEnv, regTasks, deregTasks>>
    /\ UNCHANGED fetchVars

GetConsulServices ==
    /\ pc = "getConsulServices"
    /\ \E catalogFails \in Outcomes :
       \E failing \in SUBSET {e.ServiceName : e \in registry} :
       \E order \in Enumerations(registry) :
          LET r == getConsulServices(catalogFails, failing, registry, order)
              failed == catalogFails \/ failing # {}
          IN /\ catalogFails => failing = {}
             /\ failing # {} => faults > 0
             /\ faults' = AfterCall(failed)
             /\ consulServices' = r.services
             /\ pass' = [pass EXCEPT !.consulErr = failed, !.failing = failing,
                                      !.snapshot = registry]
             /\ pc' = IF r.err THEN "wait" ELSE "getNewComponents"
    /\ UNCHANGED <<components, newComponents, removedServices, registry,
                   clusterName, hosts, ambari, sleepEnv, regTasks, deregTasks>>
    /\ UNCHANGED fetchVars

\* getNewComponents and, for a non-empty result, the fan-out of
\* registerToConsul: one goroutine per component
GetNewComponents ==
    /\ pc = "getNewComponents"
    /\ newComponents' = getNewComponents(components, consulServices)
    /\ regTasks' = 1..Len(newComponents')
    /\ pass' = [pass EXCEPT !.diffed = TRUE, !.register = newComponents',
                             !.regCalls = [i \in 1..Len(newComponents') |-> 0]]
    /\ pc' = IF Len(newComponents') > 0 THEN "registerToConsul" ELSE "getRemovedServices"
    /\ UNCHANGED <<components, consulServices, removedServices, registry,
                   clusterName, hosts, ambari, sleepEnv, deregTasks, faults>>
    /\ UNCHANGED fetchVars

\* one goroutine of registerToConsul
RegisterTask ==
    /\ pc = "registerToConsul"
    /\ \E i \in regTasks :
          /\ ~registrationPanics(newComponents[i])
          /\ \E fails \in Outcomes :
                /\ faults' = AfterCall(fails)
                /\ registry' = IF fails THEN registry
                               ELSE agentRegister(registry, registrationService(newComponents[i]))
          /\ regTasks' = regTasks \ {i}
          /\ pass' = [pass EXCEPT !.regCalls[i] = @ + 1]
    /\ UNCHANGED <<pc, components, consulServices, newComponents, removedServices,
                   clusterName, hosts, ambari, sleepEnv, deregTasks>>
    /\ UNCHANGED fetchVars

\* a goroutine of registerToConsul panics on the host name: the process exits
RegisterTaskPanics ==
    /\ pc = "registerToConsul"
    /\ \E i \in regTasks : registrationPanics(newComponents[i])
    /\ pc' = "crashed"
    /\ regTasks' = {}
    /\ deregTasks' = {}
    /\ UNCHANGED <<components, consulServices, newComponents, removedServices, registry,
                   clusterName, hosts, ambari, sleepEnv, faults, pass>>
    /\ UNCHANGED fetchVars

\* mutant: registerToConsul returns without waiting
joined_NoWait(tasks) == TRUE

\* wg.Wait(): every goroutine has called wg.Done()
joined(tasks) == tasks = {}

\* wg.Wait() of registerToConsul
RegisterJoin ==
    /\ pc = "registerToConsul"
    /\ joined(regTasks)
    /\ pc' = "getRemovedServices"
    /\ UNCHANGED <<components, consulServices, newComponents, removedServices, registry,
                   clusterName, hosts, ambari, sleepEnv, regTasks, deregTasks, faults, pass>>
    /\ UNCHANGED fetchVars

\* getRemovedServices and, for a non-empty result, deregisterFromConsul, which
\* starts one goroutine per service and returns
GetRemovedServices ==
    /\ pc = "getRemovedServices"
    /\ removedServices' = getRemovedServices(components, consulServices)
    /\ deregTasks' = deregTasks \cup
                        {[service |-> removedServices'[j], own |-> TRUE] :
                            j \in 1..Len(removedServices')}
    /\ pass' = [pass EXCEPT !.deregister = removedServices',
                             !.deregCalls = [j \in 1..Len(removedServices') |-> 0]]
    /\ pc' = "wait"
    /\ UNCHANGED <<components, consulServices, newComponents, registry,
                   clusterName, hosts, ambari, sleepEnv, regTasks, faults>>
    /\ UNCHANGED fetchVars

\* one goroutine of deregisterFromConsul, whenever it is scheduled
DeregisterTask ==
    /\ pc # "crashed"
    /\ \E task \in deregTasks :
          /\ \E fails \in Outcomes :
                /\ faults' = AfterCall(fails)
                /\ registry' = IF fails THEN registry
                               ELSE agentDeregister(registry, task.service)
          /\ deregTasks' = deregTasks \ {task}
          /\ pass' = IF task.own
                      THEN [pass EXCEPT !.deregCalls =
                               [j \in DOMAIN @ |->
                                   IF pass.deregister[j] = task.service THEN @[j] + 1
                                   ELSE @[j]]]
                      ELSE pass
    /\ UNCHANGED <<pc, components, consulServices, newComponents, removedServices,
                   clusterName, hosts, ambari, sleepEnv, regTasks>>
    /\ UNCHANGED fetchVars

MainNext ==
    \/ Wait
    \/ GetHosts
    \/ GetRootHostComponents
    \/ GetClusterName
    \/ ClusterNameCached
    \/ GetHostComponents
    \/ GetConsulServices
    \/ GetNewComponents
    \/ RegisterJoin
    \/ GetRemovedServices

Next == MainNext \/ RegisterTask \/ RegisterTaskPanics \/ DeregisterTask

\* the loop keeps running and every started goroutine is scheduled
Spec ==
    /\ Init /\ [][Next]_vars
    /\ WF_vars(MainNext)
    /\ WF_vars(RegisterTask \/ RegisterTaskPanics)
    /\ WF_vars(DeregisterTask)

-----------------------------------------------------------------------------
(* Properties of the diff engine (DiffSpec) *)

Diffed == pc \in {"diffed", "applied"}

NormalizedName(c) == getDnsReadyComponentName(c.HostComponent)

FirstTagIs(e, state) == Len(e.ServiceTags) > 0 /\ e.ServiceTags[1] = state

\* C1: getNewComponents returns exactly the components whose lowercased state
\* is not "unknown" and for which no registry entry has the component's
\* normalized name, the component's IP and the lowercased state as first tag
C1_ToRegisterExact ==
    Diffed =>
        LET Wanted(c) ==
                /\ ToLower(c.State) # UNKNOWN_STATE
                /\ ~\E e \in Range(consulServices) :
                       /\ e.ServiceName = NormalizedName(c)
                       /\ e.Address = c.IP
                       /\ FirstTagIs(e, ToLower(c.State))
        IN newComponents = SelectSeq(components, Wanted)

\* a component is left out because of a matching entry, another is returned
C1_Witness ==
    /\ pc = "diffed"
    /\ Len(newComponents) = 1
    /\ Len(components) = 2
    /\ \E i \in 1..2 : \E e \in Range(consulServices) :
          /\ ToLower(components[i].State) # UNKNOWN_STATE
          /\ e.ServiceName = NormalizedName(components[i])
          /\ e.Address = components[i].IP
          /\ FirstTagIs(e, ToLower(components[i].State))

\* C2: getRemovedServices returns exactly the entries that carry the ownership
\* tag and for which no discovered component (in any state) has the same
\* normalized name and the same address
C2_ToDeregisterExact ==
    Diffed =>
        LET Stale(e) ==
                /\ AMBARI_CONSUL_SERVICE_TAG \in Range(e.ServiceTags)
                /\ ~\E c \in Range(components) :
                       NormalizedName(c) = e.ServiceName /\ c.IP = e.Address
        IN removedServices = SelectSeq(consulServices, Stale)

\* one owned entry is stale and returned, another owned entry is kept by a
\* component in the unknown state
C2_Witness ==
    /\ pc = "diffed"
    /\ Len(removedServices) = 1
    /\ \E e \in Range(consulServices) : \E c \in Range(components) :
          /\ AMBARI_CONSUL_SERVICE_TAG \in Range(e.ServiceTags)
          /\ NormalizedName(c) = e.ServiceName /\ c.IP = e.Address
          /\ ToLower(c.State) = UNKNOWN_STATE
          /\ e \notin Range(removedServices)

\* C9: a component whose state lowercases to "unknown" is never returned by
\* getNewComponents, so no registration is issued for it
C9_UnknownNeverRegistered ==
    /\ Diffed =>
          \A c \in Range(components) :
              ToLower(c.State) = UNKNOWN_STATE => c \notin Range(newComponents)
    /\ \A c \in Range(pass.register) : ToLower(c.State) # UNKNOWN_STATE

\* an unknown-state component that no registry entry matches is left out
C9_Witness ==
    /\ pc = "applied"
    /\ Len(pass.register) > 0
    /\ \E c \in Range(components) :
          /\ ToLower(c.State) = UNKNOWN_STATE
          /\ c.State # UNKNOWN_STATE
          /\ ~\E e \in Range(consulServices) :
                 e.ServiceName = NormalizedName(c) /\ e.Address = c.IP

NoConflictingStates ==
    \A c, d \in Range(components) :
        ( /\ ToLower(c.State) # UNKNOWN_STATE /\ ToLower(d.State) # UNKNOWN_STATE
          /\ ~registrationPanics(c) /\ ~registrationPanics(d)
          /\ AgentAddress(c.IP) = AgentAddress(d.IP)
          /\ registrationId(c) = registrationId(d) )
        => ToLower(c.State) = ToLower(d.State)

\* every entry stored under the address and id of a registered component has
\* that component's service name
NoForeignNameUnderId ==
    \A c \in Range(pass.register) : \A e \in Range(consulServices) :
        SameKey(e, c.IP, registrationId(c)) => e.ServiceName = NormalizedName(c)

\* the host of every registered component is in the host inventory
RegisteredInInventory ==
    \A c \in Range(pass.register) : c.IP # <<>>

StateChanged(c, e) ==
    /\ e.Address = c.IP
    /\ Len(e.ServiceTags) > 0
    /\ e.ServiceName = NormalizedName(c)
    /\ ~registrationPanics(c)
    /\ e.ServiceID = registrationId(c)
    /\ ToLower(c.State) # UNKNOWN_STATE
    /\ e.ServiceTags[1] # ToLower(c.State)

OneEntryWithState(c) ==
    LET under == {x \in registry : SameKey(x, c.IP, registrationId(c))}
    IN /\ Cardinality(under) = 1
       /\ \A x \in under : FirstTagIs(x, ToLower(c.State))

NoOtherEntryInState(c) ==
    ~\E x \in Range(consulServices) :
        /\ x.ServiceName = NormalizedName(c) /\ x.Address = c.IP
        /\ FirstTagIs(x, ToLower(c.State))

NoOtherComponentState(c) ==
    \A d \in Range(components) :
        ( /\ ~registrationPanics(d) /\ ToLower(d.State) # UNKNOWN_STATE
          /\ AgentAddress(d.IP) = AgentAddress(c.IP)
          /\ registrationId(d) = registrationId(c) )
        => ToLower(d.State) = ToLower(c.State)

-----------------------------------------------------------------------------
(* Properties of the reconciliation loop (Spec) *)

\* what the cluster manager reports: the components a pass discovers when all
\* its queries succeed
Discovered ==
    LET root == getRootHostComponents(FALSE, ambari.root, Inventory).components
        cluster == getClusterName(FALSE, ambari.clusters)
        roles == IF cluster.err THEN <<>>
                 ELSE getHostComponents(FALSE, ambari.roles, Inventory).components
    IN Range(root \o roles)

\* every discovered component of known state has an entry with its normalized
\* name, its address and its lowercased state as first tag, and every owned
\* entry has a component of its name and address
Converged ==
    /\ \A c \in Discovered :
          ToLower(c.State) # UNKNOWN_STATE =>
              \E e \in registry :
                  /\ e.ServiceName = NormalizedName(c)
                  /\ e.Address = c.IP
                  /\ FirstTagIs(e, ToLower(c.State))
    /\ \A e \in registry :
          AMBARI_CONSUL_SERVICE_TAG \in Range(e.ServiceTags) =>
              \E c \in Discovered :
                  NormalizedName(c) = e.ServiceName /\ c.IP = e.Address

\* C4: with a fixed topology and finitely many failing calls, the registry
\* eventually reaches, and then stays in, the converged state
C4_Converges == <>[]Converged

\* C5: an entry that does not carry the ownership tag is never removed and
\* never replaced: it is in the registry after every step
C5_ForeignUntouched ==
    [][\A e \in registry :
           AMBARI_CONSUL_SERVICE_TAG \notin Range(e.ServiceTags) => e \in registry']_vars

\* C6: a pass in which the root-component query or the host-component query
\* failed hands nothing to registerToConsul and nothing to deregisterFromConsul
C6_FailedQueryAborts ==
    (pass.rootErr \/ pass.hostErr) =>
        /\ pass.register = <<>>
        /\ pass.deregister = <<>>

\* C7: a pass in which the catalog fetch or a per-service fetch failed computes
\* no diff, hands nothing to registerToConsul or deregisterFromConsul and goes
\* to the next wait; a pass that computes the diffs uses every entry the
\* registry held when it was read
C7_FailedReadNoDiff ==
    /\ pass.consulErr =>
          /\ pc = "wait"
          /\ ~pass.diffed
          /\ pass.register = <<>>
          /\ pass.deregister = <<>>
    /\ pass.diffed => Range(consulServices) = pass.snapshot

\* one per-service fetch failed while another service's entries were readable,
\* with discovered components to reconcile
C7_Witness ==
    /\ pass.consulErr
    /\ pass.failing # {}
    /\ \E e \in pass.snapshot : e.ServiceName \notin pass.failing
    /\ \E e \in pass.snapshot : e.ServiceName \in pass.failing
    /\ components # <<>>
    /\ pc = "wait"

\* C8: the process never terminates, whatever the host names of the
\* discovered components
C8_NeverTerminates == pc # "crashed"

-----------------------------------------------------------------------------
(* Order of the two mutations of a pass (DiffSpec) *)

NoneCrashes == \A i \in 1..Len(newComponents) : ~registrationPanics(newComponents[i])

\* main: registerToConsul, then deregisterFromConsul
RegisterThenDeregister(reg, order) ==
    deregisterAll(registerAll(reg, newComponents, order, 1), removedServices, 1)

\* the other order
DeregisterThenRegister(reg, order) ==
    registerAll(deregisterAll(reg, removedServices, 1), newComponents, order, 1)

\* no entry to deregister is stored under the address and id of a component
\* to register
NoIdBothWays ==
    \A i \in 1..Len(newComponents) : \A j \in 1..Len(removedServices) :
        ~( /\ removedServices[j].Address = AgentAddress(newComponents[i].IP)
           /\ removedServices[j].ServiceID = registrationId(newComponents[i]) )

Commutes ==
    \A order \in Orders(Len(newComponents)) :
        RegisterThenDeregister(pass.snapshot, order)
            = DeregisterThenRegister(pass.snapshot, order)

-----------------------------------------------------------------------------
(* Goroutines across passes (Spec) *)

\* C12: deregisterFromConsul returns only after its tasks have completed: no
\* deregistration task of an earlier pass is outstanding when a pass starts
C12_DeregistrationJoined == pc = "getHosts" => deregTasks = {}


-----------------------------------------------------------------------------
(* The cached cluster name (Spec) *)

\* C13: a pass starts with nothing but the cached cluster name; a pass issues
\* at most one cluster-list query, and only while no name is cached; a cached
\* name never changes
C13_ClusterNameOnce ==
    [][ /\ pc' = "getHosts" =>
              /\ hosts' = <<>> /\ components' = <<>> /\ consulServices' = <<>>
              /\ newComponents' = <<>> /\ removedServices' = <<>> /\ regTasks' = {}
        /\ pass'.clusterQueries <= 1
        /\ pass'.clusterQueries > pass.clusterQueries => Len(clusterName) = 0
        /\ Len(clusterName) # 0 => clusterName' = clusterName ]_vars

\* a later pass has gone past the cluster step with the cached name and
\* without a query, after some call had failed
C13_Witness ==
    /\ Len(clusterName) # 0
    /\ pass.clusterQueries = 0
    /\ pc = "getConsulServices"
    /\ faults < MaxFaults


-----------------------------------------------------------------------------
(* A pass without a cluster name (Spec) *)

RootComponents == getRootHostComponents(FALSE, ambari.root, Inventory).components

\* the cluster-scoped components of the cluster the manager holds
ClusterScoped ==
    IF getClusterName(FALSE, ambari.clusters).err THEN {}
    ELSE Range(getHostComponents(FALSE, ambari.roles, Inventory).components)

\* the pass has queried the cluster list and holds no name
DiscoveryFailed == pass.clusterQueries = 1 /\ Len(clusterName) = 0

\* the root components are diffed and registered
RootStillReconciled ==
    (DiscoveryFailed /\ pass.diffed) =>
        /\ components = RootComponents
        /\ pass.register = getNewComponents(RootComponents, consulServices)

\* nothing is issued for a cluster-scoped component or for its entry
ClusterScopedSkipped ==
    DiscoveryFailed =>
        /\ \A c \in Range(pass.register) : c \in Range(RootComponents)
        /\ \A e \in Range(pass.deregister) :
              ~\E c \in ClusterScoped :
                  NormalizedName(c) = e.ServiceName /\ c.IP = e.Address

\* C14: in a pass where no cluster name is cached and discovery fails, the
\* root components are diffed and registered, and no registration and no
\* deregistration is issued for entries of cluster-scoped components
C14_ClusterlessPass == RootStillReconciled /\ ClusterScopedSkipped


-----------------------------------------------------------------------------
(* The registration id (DiffSpec) *)

\* the normalized component type, ".", and the host name up to its first "."
\* with every underscore replaced by a hyphen
AllHyphenId(c) ==
    NormalizedName(c) \o <<".">>
        \o Replace(Slice(c.Hostname, 0, Index(c.Hostname, ".")), "_", "-", -1)

\* C15: every entry a pass has written is stored under that id of a
\* component it registered
C15_RegistrationId ==
    pc = "applied" =>
        \A e \in registry \ pass.snapshot :
            \E c \in Range(pass.register) :
                /\ e.Address = AgentAddress(c.IP)
                /\ e.ServiceName = NormalizedName(c)
                /\ e.ServiceID = AllHyphenId(c)


-----------------------------------------------------------------------------
(* The poll interval (Spec) *)

\* C16: when the poll-interval variable is set to a string that is no
\* duration, wait() sleeps the default interval
C16_InvalidIntervalDefault ==
    (Len(pass.sleep) > 0 /\ Len(sleepEnv) > 0 /\ ParseDuration(sleepEnv).err) =>
        pass.sleep = <<DEFAULT_SERVICE_CHECK_POLL_INTERVAL>>


-----------------------------------------------------------------------------
(* The maintenance state (Spec) *)

InMaintenance(role) ==
    role.Maintenance = <<"O","N">> \/ role.Maintenance = IMPLIED_FROM_SERVICE

\* the pass has read the host components of the cluster
HostComponentsRead ==
    /\ pc \in {"getConsulServices", "getNewComponents", "registerToConsul",
               "getRemovedServices"}
    /\ Len(clusterName) > 0
    /\ ~pass.hostErr

\* the component built from the i-th host role the manager reports
ComponentOfRole(i) == components[Len(ambari.root) + i]

\* C17: the state of a cluster-scoped component is "maintenance" when the
\* manager reports maintenance state ON or IMPLIED_FROM_SERVICE, whatever the
\* lifecycle state, and the lifecycle state otherwise; a component in
\* maintenance is not skipped by getNewComponents, also when its lifecycle
\* state is UNKNOWN
C17_MaintenanceState ==
    HostComponentsRead =>
        /\ Len(components) = Len(ambari.root) + Len(ambari.roles)
        /\ \A i \in 1..Len(ambari.roles) :
              LET role == ambari.roles[i]
                  c == ComponentOfRole(i)
              IN /\ c.HostComponent = role.ComponentName
                 /\ c.Hostname = role.Hostname
                 /\ c.State = IF InMaintenance(role) THEN MAINTENANCE_STATE ELSE role.State
                 /\ (pass.diffed /\ InMaintenance(role)) =>
                       \/ c \in Range(pass.register)
                       \/ \E e \in Range(consulServices) :
                             /\ e.ServiceName = NormalizedName(c)
                             /\ e.Address = c.IP
                             /\ FirstTagIs(e, MAINTENANCE_STATE)

\* a component reported UNKNOWN and in maintenance has been handed to
\* registerToConsul in state "maintenance"
C17_Witness ==
    /\ HostComponentsRead
    /\ pass.diffed
    /\ \E i \in 1..Len(ambari.roles) :
          /\ ambari.roles[i].State = UNKNOWN
          /\ InMaintenance(ambari.roles[i])
          /\ ComponentOfRole(i).State = MAINTENANCE_STATE
          /\ ComponentOfRole(i) \in Range(pass.register)


-----------------------------------------------------------------------------
(* One call per element of the two lists (Spec) *)

Pending(b) == IF b THEN 1 ELSE 0

\* C18: for every component handed to registerToConsul and every entry handed
\* to deregisterFromConsul one call is attempted, whatever the outcome of the
\* other calls, and none is attempted twice: the calls attempted and the task
\* still to run add up to one
C18_OneCallEach ==
    /\ \A i \in 1..Len(pass.regCalls) :
          pass.regCalls[i] + Pending(i \in regTasks) = 1
    /\ \A j \in 1..Len(pass.deregCalls) :
          pass.deregCalls[j]
              + Pending([service |-> pass.deregister[j], own |-> TRUE] \in deregTasks) = 1


-----------------------------------------------------------------------------
(* Components of hosts that are not in the inventory (DiffSpec) *)

AbsentHost(c) == c.Hostname \notin DOMAIN hosts

\* C19: a component whose host is not in the host inventory has the empty
\* address, and with a known state it is returned by getNewComponents in
\* every diff, before and after the registrations
C19_AbsentHostAlwaysNew ==
    pc \in {"diffed", "applied", "rediffed"} =>
        \A c \in Range(components) :
            AbsentHost(c) =>
                /\ c.IP = <<>>
                /\ ToLower(c.State) # UNKNOWN_STATE => c \in Range(newComponents)

\* the component has been registered, the registry holds an entry with its
\* name and state, and the next diff returns it again
C19_Witness ==
    /\ pc = "rediffed"
    /\ \E c \in Range(components) :
          /\ AbsentHost(c)
          /\ c \in Range(pass.register)
          /\ c \in Range(newComponents)
          /\ \E e \in registry :
                e.ServiceName = NormalizedName(c) /\ FirstTagIs(e, ToLower(c.State))


-----------------------------------------------------------------------------
(* Duplicates in the component list (DiffSpec) *)

\* two elements of the component list with one normalized name and address
Duplicates(i, j) ==
    /\ i # j
    /\ NormalizedName(components[i]) = NormalizedName(components[j])
    /\ components[i].IP = components[j].IP

EntriesOfPair(c) ==
    {e \in registry : e.ServiceName = NormalizedName(c) /\ e.Address = c.IP}

SameRegistration(i, j) ==
    LET c == components[i]
        d == components[j]
    IN /\ Duplicates(i, j)
       /\ c.IP # <<>>
       /\ ~registrationPanics(c) /\ ~registrationPanics(d)
       /\ registrationId(c) = registrationId(d)
       /\ ToLower(c.State) = ToLower(d.State)
       /\ ToLower(c.State) # UNKNOWN_STATE
       /\ \A x \in Range(components) :
             ( /\ ~registrationPanics(x) /\ ToLower(x.State) # UNKNOWN_STATE
               /\ AgentAddress(x.IP) = c.IP /\ registrationId(x) = registrationId(c) )
             => /\ NormalizedName(x) = NormalizedName(c)
                /\ ToLower(x.State) = ToLower(c.State)
       /\ NoForeignNameUnderId

-----------------------------------------------------------------------------
(* Normalization of the service name (NameSpec) *)

\* C21: the normalization of a component type is idempotent: normalizing the
\* normalized name of a component, and the service name of an entry the
\* program has registered, changes nothing
C21_NormalizeIdempotent ==
    /\ \A c \in Range(components) :
          getDnsReadyComponentName(getDnsReadyComponentName(c.HostComponent))
              = getDnsReadyComponentName(c.HostComponent)
    /\ \A e \in registry :
          getDnsReadyComponentName(e.ServiceName) = e.ServiceName

\* a type with an upper case letter and two underscores has been registered
\* under a name without either
C21_Witness ==
    /\ pc = "applied"
    /\ \E c \in Range(components) : \E e \in registry :
          /\ Cardinality({i \in 1..Len(c.HostComponent) : c.HostComponent[i] = "_"}) = 2
          /\ "A" \in Range(c.HostComponent)
          /\ e.ServiceName = getDnsReadyComponentName(c.HostComponent)
          /\ "_" \notin Range(e.ServiceName)
          /\ "A" \notin Range(e.ServiceName)


-----------------------------------------------------------------------------
(* The registration barrier (Spec) *)

\* C22: registerToConsul returns only after each of its tasks has finished:
\* outside registerToConsul no registration task is left, and when the
\* deregistrations of the pass are issued, and until the next pass begins,
\* one call has been attempted for every component handed to it
C22_RegistrationJoined ==
    /\ pc # "registerToConsul" => regTasks = {}
    /\ (pass.diffed /\ pc \in {"getRemovedServices", "wait"}) =>
          \A i \in 1..Len(pass.register) : pass.regCalls[i] = 1
    /\ Len(pass.deregister) > 0 =>
          \A i \in 1..Len(pass.register) : pass.regCalls[i] = 1

\* two registrations, one of which failed, have finished and the
\* deregistrations of the pass have been issued
C22_Witness ==
    /\ pc = "wait"
    /\ Len(pass.register) = 2
    /\ Len(pass.deregister) > 0
    /\ faults < MaxFaults
    /\ \E c \in Range(pass.register) :
          ~\E e \in registry :
              e.ServiceName = NormalizedName(c) /\ FirstTagIs(e, ToLower(c.State))


-----------------------------------------------------------------------------
(* getConsulServices step by step: the catalog fetch, one goroutine per      *)
(* service name, the goroutine that closes the channels, and the loops of    *)
(* the caller over serviceChannel and errorChannel. pc is the position of    *)
(* the caller. The goroutines are started in one step: wg.Add precedes each  *)
(* go statement and the closing goroutine starts after the loop, so its      *)
(* wg.Wait() sees the count of all of them.                                  *)

\* the variables of main and of the environment, which the call leaves alone
fetchFrame == <<components, consulServices, newComponents, removedServices, registry,
                clusterName, hosts, ambari, sleepEnv, regTasks, deregTasks, faults, pass>>

\* mutant: the error channel is unbuffered
errorCapacity_Unbuffered(n) == 0

\* make(chan error, len(catalogNames))
errorCapacity(n) == n

\* mutant: the channels are closed without waiting for the goroutines
waited_NoWait(counter) == TRUE

\* wg.Wait() of the closing goroutine
waited(counter) == counter = 0

\* what /v1/catalog/service/<name> holds
ServiceEntries(reg, name) == {e \in reg : e.ServiceName = name}

FetchInit ==
    /\ pc = "catalog"
    /\ registry \in Registries(MaxServices)
    /\ catalogNames \in SUBSET ServiceNames
    /\ fetchTask = [n \in catalogNames |->
                  [pc |-> "unborn", failed |-> FALSE, fetched |-> <<>>, toSend |-> <<>>]]
    /\ wg = 0
    /\ serviceChannel = [closes |-> 0]
    /\ errorChannel = [cap |-> 0, buf |-> <<>>, closes |-> 0]
    /\ closer = "unborn"
    /\ received = <<>>
    /\ result = [err |-> FALSE, services |-> <<>>]
    /\ components = <<>>
    /\ consulServices = <<>>
    /\ newComponents = <<>>
    /\ removedServices = <<>>
    /\ pass = NoPass
    /\ clusterName = <<>>
    /\ hosts = Inventory
    /\ ambari = <<>>
    /\ sleepEnv = <<>>
    /\ regTasks = {}
    /\ deregTasks = {}
    /\ faults = 0

\* GET /v1/catalog/catalogNames and its decoding; then the channels, the
\* goroutines of the loop and the closing goroutine
Catalog ==
    /\ pc = "catalog"
    /\ \E fails \in BOOLEAN :
          IF fails
          THEN /\ pc' = "returned"
               /\ result' = [err |-> TRUE, services |-> <<>>]
               /\ UNCHANGED <<fetchTask, wg, errorChannel, closer>>
          ELSE /\ pc' = "rangeService"
               /\ wg' = Cardinality(catalogNames)
               /\ errorChannel' =
                     [errorChannel EXCEPT !.cap = errorCapacity(Cardinality(catalogNames))]
               /\ fetchTask' = [n \in catalogNames |-> [fetchTask[n] EXCEPT !.pc = "fetch"]]
               /\ closer' = "wg.Wait"
               /\ UNCHANGED result
    /\ UNCHANGED <<catalogNames, serviceChannel, received>>
    /\ UNCHANGED fetchFrame

\* GET /v1/catalog/service/<name> and its decoding, in the goroutine of name
Fetch(name) ==
    /\ fetchTask[name].pc = "fetch"
    /\ \E fails \in BOOLEAN :
          IF fails
          THEN fetchTask' = [fetchTask EXCEPT ![name].pc = "sendErr", ![name].failed = TRUE]
          ELSE \E list \in Enumerations(ServiceEntries(registry, name)) :
                  fetchTask' = [fetchTask EXCEPT ![name].pc = IF list = <<>> THEN "return" ELSE "send",
                                       ![name].fetched = list,
                                       ![name].toSend = list]
    /\ UNCHANGED <<pc, catalogNames, wg, serviceChannel, errorChannel, closer, received, result>>
    /\ UNCHANGED fetchFrame

\* serviceChannel <- s meets the receive of the caller's range loop, which
\* appends s to registered
Send(name) ==
    /\ fetchTask[name].pc = "send"
    /\ pc = "rangeService"
    /\ serviceChannel.closes = 0
    /\ received' = Append(received, Head(fetchTask[name].toSend))
    /\ fetchTask' = [fetchTask EXCEPT ![name].toSend = Tail(fetchTask[name].toSend),
                            ![name].pc = IF Len(fetchTask[name].toSend) = 1
                                         THEN "return" ELSE "send"]
    /\ UNCHANGED <<pc, catalogNames, wg, serviceChannel, errorChannel, closer, result>>
    /\ UNCHANGED fetchFrame

\* errorChannel <- err: there is room in the buffer, or the caller is
\* receiving
SendErr(name) ==
    /\ fetchTask[name].pc = "sendErr"
    /\ errorChannel.closes = 0
    /\ Len(errorChannel.buf) < errorChannel.cap \/ pc = "rangeError"
    /\ errorChannel' = [errorChannel EXCEPT !.buf = Append(errorChannel.buf, name)]
    /\ fetchTask' = [fetchTask EXCEPT ![name].pc = "return"]
    /\ UNCHANGED <<pc, catalogNames, wg, serviceChannel, closer, received, result>>
    /\ UNCHANGED fetchFrame

\* defer wg.Done()
Done(name) ==
    /\ fetchTask[name].pc = "return"
    /\ fetchTask' = [fetchTask EXCEPT ![name].pc = "done"]
    /\ wg' = wg - 1
    /\ UNCHANGED <<pc, catalogNames, serviceChannel, errorChannel, closer, received, result>>
    /\ UNCHANGED fetchFrame

\* wg.Wait() of the closing goroutine
CloserWait ==
    /\ closer = "wg.Wait"
    /\ waited(wg)
    /\ closer' = "close(serviceChannel)"
    /\ UNCHANGED <<pc, catalogNames, fetchTask, wg, serviceChannel, errorChannel, received, result>>
    /\ UNCHANGED fetchFrame

CloseService ==
    /\ closer = "close(serviceChannel)"
    /\ serviceChannel' = [serviceChannel EXCEPT !.closes = serviceChannel.closes + 1]
    /\ closer' = "close(errorChannel)"
    /\ UNCHANGED <<pc, catalogNames, fetchTask, wg, errorChannel, received, result>>
    /\ UNCHANGED fetchFrame

CloseError ==
    /\ closer = "close(errorChannel)"
    /\ errorChannel' = [errorChannel EXCEPT !.closes = errorChannel.closes + 1]
    /\ closer' = "done"
    /\ UNCHANGED <<pc, catalogNames, fetchTask, wg, serviceChannel, received, result>>
    /\ UNCHANGED fetchFrame

\* for s := range serviceChannel ends when the channel is closed
RangeServiceEnd ==
    /\ pc = "rangeService"
    /\ serviceChannel.closes > 0
    /\ pc' = "rangeError"
    /\ UNCHANGED fetchVars
    /\ UNCHANGED fetchFrame

\* for e := range errorChannel { return nil, e }
ReceiveError ==
    /\ pc = "rangeError"
    /\ errorChannel.buf # <<>>
    /\ errorChannel' = [errorChannel EXCEPT !.buf = Tail(errorChannel.buf)]
    /\ result' = [err |-> TRUE, services |-> <<>>]
    /\ pc' = "returned"
    /\ UNCHANGED <<catalogNames, fetchTask, wg, serviceChannel, closer, received>>
    /\ UNCHANGED fetchFrame

\* the error channel is closed and empty: return registered, nil
RangeErrorEnd ==
    /\ pc = "rangeError"
    /\ errorChannel.buf = <<>>
    /\ errorChannel.closes > 0
    /\ result' = [err |-> FALSE, services |-> received]
    /\ pc' = "returned"
    /\ UNCHANGED <<catalogNames, fetchTask, wg, serviceChannel, errorChannel, closer, received>>
    /\ UNCHANGED fetchFrame

FetchNext ==
    \/ Catalog
    \/ \E name \in catalogNames : Fetch(name)
    \/ \E name \in catalogNames : Send(name)
    \/ \E name \in catalogNames : SendErr(name)
    \/ \E name \in catalogNames : Done(name)
    \/ CloserWait
    \/ CloseService
    \/ CloseError
    \/ RangeServiceEnd
    \/ ReceiveError
    \/ RangeErrorEnd

\* every goroutine that can take a step is scheduled
FetchSpec == FetchInit /\ [][FetchNext]_vars /\ WF_vars(FetchNext)

\* the goroutines were started, and no fetch has failed
AllFetchesSucceed ==
    /\ closer # "unborn"
    /\ \A name \in catalogNames : ~fetchTask[name].failed

\* every goroutine has run to its end
AllTasksDone == \A name \in catalogNames : fetchTask[name].pc = "done"

\* C23: when the catalog fetch and every per-service fetch succeed, the list
\* that getConsulServices returns holds each entry of each per-service
\* response exactly once and nothing else, and it is returned only after
\* every fetch goroutine has finished
C23_EachEntryOnce ==
    (pc = "returned" /\ AllFetchesSucceed) =>
        /\ ~result.err
        /\ AllTasksDone
        /\ \A name \in catalogNames : \A i \in 1..Len(fetchTask[name].fetched) :
              Cardinality({k \in 1..Len(result.services) :
                              result.services[k] = fetchTask[name].fetched[i]}) = 1
        /\ \A k \in 1..Len(result.services) :
              \E name \in catalogNames : \E i \in 1..Len(fetchTask[name].fetched) :
                  result.services[k] = fetchTask[name].fetched[i]

\* two goroutines have each sent one entry, and the list of both is returned
C23_Witness ==
    /\ pc = "returned"
    /\ AllFetchesSucceed
    /\ Cardinality(catalogNames) = 2
    /\ \A name \in catalogNames : Len(fetchTask[name].fetched) = 1
    /\ Len(result.services) = 2

\* C24: getConsulServices terminates: each channel is closed at most once and
\* never while a goroutine has still to send on it, and in the end the
\* caller has returned and, when goroutines were started, all of them have
\* finished and both channels have been closed once
C24_FetchTerminates ==
    /\ [](/\ serviceChannel.closes <= 1
          /\ errorChannel.closes <= 1
          /\ \A name \in catalogNames :
                /\ fetchTask[name].pc \in {"fetch", "send"} => serviceChannel.closes = 0
                /\ fetchTask[name].pc \in {"fetch", "sendErr"} => errorChannel.closes = 0)
    /\ <>[](/\ pc = "returned"
            /\ closer # "unborn" =>
                  /\ AllTasksDone
                  /\ wg = 0
                  /\ closer = "done"
                  /\ serviceChannel.closes = 1
                  /\ errorChannel.closes = 1)

\* a failed fetch and a fetch that sent an entry: the caller has returned the
\* error, both goroutines are done and both channels are closed
C24_Witness ==
    /\ pc = "returned"
    /\ result.err
    /\ closer = "done"
    /\ AllTasksDone
    /\ \E name \in catalogNames : fetchTask[name].failed
    /\ \E name \in catalogNames : Len(fetchTask[name].fetched) > 0


-----------------------------------------------------------------------------
(* The pause before each pass (Spec) *)

\* C25: every host-inventory query is preceded by exactly one wait() since
\* the previous one, and that wait() has paused the loop, so that a pass
\* that fails again and again is not retried without pause
C25_PauseBeforeEachPass ==
    pc = "getHosts" => (Len(pass.sleep) = 1 /\ pass.sleep[1] > 0)

====
